---- MODULE Spec2Model ----
(***************************************************************************)
(* Model of the Databricks resource monitor: the shared enforcement logic  *)
(* of ResourceHandler (check_resources, handle_violations), the model      *)
(* serving endpoint adapter, the configuration loaders and the entry point.*)
(*                                                                         *)
(* Python strings are sequences of string chunks (so that startswith,      *)
(* join and split are computed), Python values are records [t, s] where t  *)
(* is the Python type and s the chunks of str(value).                      *)
(***************************************************************************)
EXTENDS Integers, Sequences, FiniteSets, TLC

VARIABLES
    platform,                   \* live serving endpoints of the workspace, in listing order
    whitelist,                  \* handler.whitelist (a set of ids)
    ignore_databricks_managed,  \* handler.ignore_databricks_managed
    violations,                 \* handler.violations
    result,                     \* the last handler operation, its argument and how it ended
    calls,                      \* handler operations invoked by the last operation, in order
    last_check,                 \* history: the most recent check_resources call, if it completed
    files,                      \* the parsed content of each configuration source, or Absent
    loaded,                     \* the last call of a configuration loader and how it ended
    run                         \* the last run of the entry point and how it ended

handler_vars ==
    <<platform, whitelist, ignore_databricks_managed, violations, result, calls, last_check>>
config_vars == <<files, loaded>>
vars == <<handler_vars, config_vars, run>>

\* Longest platform listing explored.
MaxListing == 2

-----------------------------------------------------------------------------
(* Python values *)

PyNone == [t |-> "NoneType", s |-> <<>>]
PyStr(chunks) == [t |-> "str", s |-> chunks]
PyInt(digits) == [t |-> "int", s |-> <<digits>>]
PyBool(b) == [t |-> "bool", s |-> << IF b THEN "True" ELSE "False" >>]
\* A list holds its items, a dict its <<key, value>> pairs
PyList(items) == [t |-> "list", s |-> items]
PyDict(pairs) == [t |-> "dict", s |-> pairs]
\* An attribute the SDK object does not have (hasattr(...) is False).
NoAttr == [t |-> "<no attribute>", s |-> <<>>]

\* str(v) as used by f-strings
Str(v) == IF v.t = "NoneType" THEN <<"None">> ELSE v.s

\* bool(v)
Truthy(v) ==
    CASE v.t = "NoneType" -> FALSE
      [] v.t = "str" -> v.s # <<>>
      [] v.t = "int" -> v.s # <<"0">>
      [] v.t = "bool" -> v.s = <<"True">>
      [] OTHER -> TRUE

\* s.startswith(prefix)
StartsWith(s, prefix) ==
    /\ Len(s) >= Len(prefix)
    /\ SubSeq(s, 1, Len(prefix)) = prefix

RECURSIVE Join(_, _)
\* sep.join(parts)
Join(parts, sep) ==
    IF parts = <<>> THEN <<>>
    ELSE IF Len(parts) = 1 THEN parts[1]
    ELSE parts[1] \o sep \o Join(Tail(parts), sep)

-----------------------------------------------------------------------------
(* The platform: serving endpoints as the SDK returns them *)

ManagedPrefix == <<"databricks", "-">>

EndpointNames ==
    { <<"databricks", "-", "foo">>, <<"databricks", "_", "bar">>, <<"svc">> }

\* The creator attribute of the endpoints explored, by name: missing, None or a user
EndpointCreators(name) ==
    CASE name = <<"databricks", "-", "foo">> -> { NoAttr, PyNone, PyStr(<<"alice">>) }
      [] name = <<"svc">> -> { PyNone, PyStr(<<"alice">>) }
      [] OTHER -> { PyNone }

\* creation_timestamp of the endpoint of each name: set, None, and the falsy 0
EndpointTimestamp(name) ==
    CASE name = <<"databricks", "-", "foo">> -> PyInt("1700")
      [] name = <<"svc">> -> PyInt("0")
      [] OTHER -> PyNone

Endpoint(name, creator) ==
    [ name |-> name,
      creator |-> creator,
      config_update |-> PyStr(<<"NOT_UPDATING">>),
      creation_timestamp |-> EndpointTimestamp(name) ]

Endpoints ==
    UNION { { Endpoint(n, c) : c \in EndpointCreators(n) } : n \in EndpointNames }

\* Listings of at most MaxListing endpoints; endpoint names are unique in a workspace.
Listings ==
    { l \in UNION { [1..n -> Endpoints] : n \in 0..MaxListing } :
        \A i, j \in DOMAIN l : i # j => l[i].name # l[j].name }

\* Identifiers a whitelist may hold
WhitelistIds == EndpointNames

-----------------------------------------------------------------------------
(* ModelEndpointHandler *)

\* One record of ModelEndpointHandler.list_resources
EndpointRecord(endpoint) ==
    [ id |-> endpoint.name,
      name |-> endpoint.name,
      state |-> IF endpoint.config_update # NoAttr
                  THEN endpoint.config_update ELSE PyStr(<<"UNKNOWN">>),
      creator |-> IF endpoint.creator # NoAttr
                    THEN endpoint.creator ELSE PyStr(<<"UNKNOWN">>),
      creation_timestamp |-> IF endpoint.creation_timestamp # NoAttr
                               THEN endpoint.creation_timestamp ELSE PyNone ]

list_resources(endpoints) ==
    [ i \in DOMAIN endpoints |-> EndpointRecord(endpoints[i]) ]

get_resource_id(resource) == resource.id

get_resource_details(resource) ==
    LET details ==
            << <<"Name: ">> \o resource.name,
               <<"State: ">> \o Str(resource.state),
               <<"Creator: ">> \o Str(resource.creator) >>
        created ==
            IF Truthy(resource.creation_timestamp)
              THEN << <<"Created: ">> \o Str(resource.creation_timestamp) >>
              ELSE <<>>
    IN  Join(details \o created, <<" | ">>)

-----------------------------------------------------------------------------
(* ResourceHandler: shared enforcement logic *)

\* One invocation of a handler operation: its argument (a resource id) and, for
\* is_databricks_managed and delete_resource, what it returned ("raise": it raised)
Call(op, arg, ret) == [op |-> op, arg |-> arg, ret |-> ret]

BoolStr(b) == IF b THEN "True" ELSE "False"

\* Mutant: the name only has to contain the reserved word
is_databricks_managed_AnyDatabricks(resource) ==
    /\ resource.creator = PyNone
    /\ Len(resource.name) >= 1 /\ resource.name[1] = "databricks"

is_databricks_managed(resource) ==
    /\ resource.creator = PyNone
    /\ StartsWith(resource.name, ManagedPrefix)

\* Mutant: managed resources are skipped whatever the configuration says
IsViolation_AlwaysFilter(resource, wl, ignore) ==
    /\ get_resource_id(resource) \notin wl
    /\ ~ is_databricks_managed(resource)

\* Mutant: the whitelist is not consulted
IsViolation_IgnoresWhitelist(resource, wl, ignore) ==
    ~ (ignore /\ is_databricks_managed(resource))

\* The decision check_resources takes for one resource of the listing.
IsViolation(resource, wl, ignore) ==
    /\ get_resource_id(resource) \notin wl
    /\ ~ (ignore /\ is_databricks_managed(resource))

NewViolation(resource) ==
    [ id |-> get_resource_id(resource),
      details |-> get_resource_details(resource),
      action_taken |-> "None" ]

\* Handler operations the loop of check_resources invokes for one resource.
CheckCalls(resource, wl, ignore) ==
    << Call("get_resource_id", resource.id, "") >>
    \o ( IF get_resource_id(resource) \in wl THEN <<>>
         ELSE ( IF ignore
                  THEN << Call("is_databricks_managed", resource.id,
                               BoolStr(is_databricks_managed(resource))) >>
                  ELSE <<>> )
              \o ( IF IsViolation(resource, wl, ignore)
                     THEN << Call("get_resource_details", resource.id, "") >>
                     ELSE <<>> ) )

\* Mutant: check_resources appends to the violations of earlier calls
ResetViolations_Keep(vs) == vs

\* self.violations = [] at the start of check_resources, before the listing
ResetViolations(vs) == <<>>

RECURSIVE CheckLoop(_, _, _)
\* The loop of check_resources over the listing: [violations, calls]
CheckLoop(resources, wl, ignore) ==
    IF resources = <<>> THEN [violations |-> <<>>, calls |-> <<>>]
    ELSE LET r == Head(resources)
             rest == CheckLoop(Tail(resources), wl, ignore)
         IN  [ violations |->
                   ( IF IsViolation(r, wl, ignore)
                       THEN << NewViolation(r) >> ELSE <<>> ) \o rest.violations,
               calls |-> CheckCalls(r, wl, ignore) \o rest.calls ]

\* Mutant: list_resources swallows the platform error and returns an empty list
ListingFailure_Swallowed ==
    [ op |-> "check_resources", arg |-> "", kind |-> "return", exc |-> "",
      status |-> "", count |-> 0, actions |-> <<>>, message |-> <<>>, value |-> <<>> ]

NoResult ==
    [ op |-> "__init__", arg |-> "", kind |-> "return", exc |-> "", status |-> "",
      count |-> 0, actions |-> <<>>, message |-> <<>>, value |-> <<>> ]

Returned(op, value) ==
    [NoResult EXCEPT !.op = op, !.value = value]

Raised(op, exc, message) ==
    [NoResult EXCEPT !.op = op, !.kind = "raise", !.exc = exc, !.message = message]

\* list_resources logs the platform error and raises it again; check_resources
\* has no handler around the call
ListingFailure ==
    Raised("check_resources", "ListingError", <<"listing failed">>)

Report(status, count, actions) ==
    [NoResult EXCEPT !.op = "handle_violations", !.status = status,
                     !.count = count, !.actions = actions]

-----------------------------------------------------------------------------
(* handle_violations *)

\* What one delete_resource call can do: return True, return False, raise.
DeleteOutcomes == { "True", "False", "raise" }

\* str(e) of an exception raised by delete_resource
DeleteErrorText == <<"boom">>

\* The body of the delete loop for one violation
\* Mutant: action_taken is written only while it is unset
DeleteOne_WriteOnce(violation, outcome) ==
    LET keep == violation.action_taken # "None"
        taken == IF keep THEN violation.action_taken
                 ELSE IF outcome = "True" THEN "deleted"
                 ELSE IF outcome = "False" THEN "delete_failed" ELSE "error"
    IN  [ violation |-> [violation EXCEPT !.action_taken = taken],
          action |-> ( IF outcome = "True" THEN <<"Deleted resource ">>
                       ELSE IF outcome = "False" THEN <<"Failed to delete resource ">>
                       ELSE <<"Error deleting resource ">> ) \o violation.id
                     \o ( IF outcome \in {"True", "False"} THEN <<>>
                          ELSE <<": ">> \o DeleteErrorText ),
          failed |-> outcome # "True" ]

DeleteOne(violation, outcome) ==
    CASE outcome = "True" ->
           [ violation |-> [violation EXCEPT !.action_taken = "deleted"],
             action |-> <<"Deleted resource ">> \o violation.id,
             failed |-> FALSE ]
      [] outcome = "False" ->
           [ violation |-> [violation EXCEPT !.action_taken = "delete_failed"],
             action |-> <<"Failed to delete resource ">> \o violation.id,
             failed |-> TRUE ]
      [] OTHER ->
           [ violation |-> [violation EXCEPT !.action_taken = "error"],
             action |-> <<"Error deleting resource ">> \o violation.id
                            \o <<": ">> \o DeleteErrorText,
             failed |-> TRUE ]

RECURSIVE DeleteLoop_LastDecides(_, _, _)
\* Mutant: a later successful deletion resets the status to success
DeleteLoop_LastDecides(vs, outs, i) ==
    IF i > Len(vs)
      THEN [ violations |-> <<>>, actions |-> <<>>, status |-> "success", calls |-> <<>> ]
      ELSE LET one == DeleteOne(vs[i], outs[i])
               rest == DeleteLoop_LastDecides(vs, outs, i + 1)
           IN  [ violations |-> << one.violation >> \o rest.violations,
                 actions |-> << one.action >> \o rest.actions,
                 status |-> IF i < Len(vs) THEN rest.status
                            ELSE IF one.failed THEN "partial_failure" ELSE "success",
                 calls |-> << Call("delete_resource", vs[i].id, outs[i]) >> \o rest.calls ]

RECURSIVE DeleteLoop_AbortOnRaise(_, _, _)
\* Mutant: the try/except wraps the loop, so a raising delete_resource ends it
DeleteLoop_AbortOnRaise(vs, outs, i) ==
    IF i > Len(vs)
      THEN [ violations |-> <<>>, actions |-> <<>>, status |-> "success", calls |-> <<>> ]
      ELSE LET one == DeleteOne(vs[i], outs[i])
               rest == IF outs[i] = "raise"
                         THEN [ violations |-> SubSeq(vs, i + 1, Len(vs)), actions |-> <<>>,
                                status |-> "partial_failure", calls |-> <<>> ]
                         ELSE DeleteLoop_AbortOnRaise(vs, outs, i + 1)
           IN  [ violations |-> << one.violation >> \o rest.violations,
                 actions |-> << one.action >> \o rest.actions,
                 status |-> IF one.failed THEN "partial_failure" ELSE rest.status,
                 calls |-> << Call("delete_resource", vs[i].id, outs[i]) >> \o rest.calls ]

RECURSIVE DeleteLoop(_, _, _)
\* The delete loop from position i on; outs[i] is what the i-th delete_resource call does.
DeleteLoop(vs, outs, i) ==
    IF i > Len(vs)
      THEN [ violations |-> <<>>, actions |-> <<>>, status |-> "success", calls |-> <<>> ]
      ELSE LET one == DeleteOne(vs[i], outs[i])
               rest == DeleteLoop(vs, outs, i + 1)
           IN  [ violations |-> << one.violation >> \o rest.violations,
                 actions |-> << one.action >> \o rest.actions,
                 status |-> IF one.failed THEN "partial_failure" ELSE rest.status,
                 calls |-> << Call("delete_resource", vs[i].id, outs[i]) >> \o rest.calls ]

AlertLine(v) == <<"- ">> \o v.id \o <<": ">> \o v.details

\* Mutant: the lines are joined without the line break
AlertMessage_OneLine(vs) ==
    <<"ALERT: Found ", ToString(Len(vs)), " unauthorized resources:", "\n">>
    \o Join([ i \in DOMAIN vs |-> AlertLine(vs[i]) ], <<", ">>)
    \o <<"\n", "\n">>
    \o <<"Please review and take appropriate action.">>

\* The message of the exception raised in alert mode
AlertMessage(vs) ==
    <<"ALERT: Found ", ToString(Len(vs)), " unauthorized resources:", "\n">>
    \o Join([ i \in DOMAIN vs |-> AlertLine(vs[i]) ], <<"\n">>)
    \o <<"\n", "\n">>
    \o <<"Please review and take appropriate action.">>

InvalidModeMessage(action_mode) ==
    <<"Invalid action_mode: ", action_mode, ". Must be 'delete' or 'alert'">>

\* The branches of handle_violations: the violations afterwards, how the call
\* ended, the handler operations it invoked
HandleNothing(vs) ==
    [ violations |-> vs, result |-> Report("success", 0, <<>>), calls |-> <<>> ]

HandleDelete(vs, outs) ==
    LET loop == DeleteLoop(vs, outs, 1)
    IN  [ violations |-> loop.violations,
          result |-> Report(loop.status, Len(vs), loop.actions),
          calls |-> loop.calls ]

HandleAlert(vs) ==
    [ violations |-> vs,
      result |-> Raised("handle_violations", "Exception", AlertMessage(vs)),
      calls |-> <<>> ]

HandleInvalidMode(vs, action_mode) ==
    [ violations |-> vs,
      result |-> Raised("handle_violations", "ValueError",
                        InvalidModeMessage(action_mode)),
      calls |-> <<>> ]

\* Mutant: the mode is compared without regard to case
handle_violations_AnyCase(vs, action_mode, outs) ==
    IF vs = <<>> THEN HandleNothing(vs)
    ELSE IF action_mode \in {"delete", "DELETE"} THEN HandleDelete(vs, outs)
    ELSE IF action_mode = "alert" THEN HandleAlert(vs)
    ELSE HandleInvalidMode(vs, action_mode)

\* Mutant: the mode is validated before the violations are looked at
handle_violations_ModeFirst(vs, action_mode, outs) ==
    IF action_mode \notin {"delete", "alert"} THEN HandleInvalidMode(vs, action_mode)
    ELSE IF vs = <<>> THEN HandleNothing(vs)
    ELSE IF action_mode = "delete" THEN HandleDelete(vs, outs)
    ELSE HandleAlert(vs)

\* handle_violations(action_mode) on a handler holding vs
handle_violations(vs, action_mode, outs) ==
    IF vs = <<>> THEN HandleNothing(vs)
    ELSE IF action_mode = "delete" THEN HandleDelete(vs, outs)
    ELSE IF action_mode = "alert" THEN HandleAlert(vs)
    ELSE HandleInvalidMode(vs, action_mode)

\* The listing after the deletions that succeeded
RECURSIVE WithoutDeleted(_, _)
WithoutDeleted(endpoints, deleted) ==
    IF endpoints = <<>> THEN <<>>
    ELSE ( IF Head(endpoints).name \in deleted THEN <<>> ELSE << Head(endpoints) >> )
         \o WithoutDeleted(Tail(endpoints), deleted)

-----------------------------------------------------------------------------
(* Configuration sources and the two configuration loaders *)

\* A source that does not exist
Absent == [t |-> "<absent>", s |-> <<>>]

\* 'key' in d
HasKey(d, key) == \E i \in DOMAIN d.s : d.s[i][1] = key

\* d.get(key, default)
Get(d, key, default) ==
    IF HasKey(d, key)
      THEN d.s[CHOOSE i \in DOMAIN d.s : d.s[i][1] = key][2]
      ELSE default

\* len(v) is defined
HasLen(v) == v.t \in { "list", "dict", "str" }

Id(name) == PyStr(name)

\* Parsed JSON documents a configuration file may hold
ConfigDocuments ==
    { PyList(<< Id(<<"svc">>), Id(<<"databricks", "_", "bar">>) >>),
      PyList(<<>>),
      PyList(<< PyInt("7") >>),
      PyDict(<< <<"whitelist", PyList(<< Id(<<"svc">>) >>)>>,
                <<"ignore_databricks_managed", PyBool(TRUE)>> >>),
      PyDict(<< <<"whitelist", PyList(<< Id(<<"svc">>) >>)>> >>),
      PyDict(<< <<"description", PyStr(<<"endpoints">>)>>,
                <<"whitelist", PyList(<<>>)>>,
                <<"ignore_databricks_managed", PyBool(FALSE)>> >>),
      PyDict(<<>>),
      PyDict(<< <<"ignore_databricks_managed", PyBool(TRUE)>> >>),
      PyInt("42"),
      PyStr(<<"svc">>),
      PyNone,
      PyDict(<< <<"whitelist", PyStr(<<"svc">>)>> >>),
      PyDict(<< <<"whitelist", PyInt("42")>> >>),
      PyDict(<< <<"whitelist", PyList(<< Id(<<"svc">>) >>)>>,
                <<"ignore_databricks_managed", PyStr(<<"yes">>)>> >>),
      PyDict(<< <<"whitelist", PyList(<< Id(<<"svc">>) >>)>>,
                <<"ignore_databricks_managed", PyInt("0")>> >>) }

\* What the packaged default, the deployment path and the local path hold when they exist
PackagedDocument == PyList(<< Id(<<"databricks", "-", "foo">>) >>)
WorkspaceDocument ==
    PyDict(<< <<"whitelist", PyList(<< Id(<<"databricks", "_", "bar">>) >>)>>,
              <<"ignore_databricks_managed", PyBool(TRUE)>> >>)
LocalDocument == PyList(<< Id(<<"svc">>), Id(<<"databricks", "-", "foo">>) >>)

\* The file at the explicit path, the packaged default <type>.json, the file
\* /Workspace/config/whitelists/<type>.json, the file config/whitelists/<type>.json
\* under the project root
FileSystems ==
    [ custom : ConfigDocuments \cup { Absent },
      package : { PackagedDocument, Absent },
      workspace : { WorkspaceDocument, Absent },
      local : { LocalDocument, Absent } ]

\* Values of the custom_path argument: not given, empty, a path
CustomPaths == { PyNone, PyStr(<<>>), PyStr(<<"/tmp/wl.json">>) }

NoLoad ==
    [ op |-> "", custom_path |-> PyNone, kind |-> "return", exc |-> "",
      source |-> "", whitelist |-> PyNone, ignore |-> PyNone ]

LoadReturned(source, wl, ignore) ==
    [NoLoad EXCEPT !.source = source, !.whitelist = wl, !.ignore = ignore]

LoadRaised(source, exc) ==
    [NoLoad EXCEPT !.source = source, !.kind = "raise", !.exc = exc]

\* Mutant: the local path is looked at before the deployment path
ConfigSource_LocalFirst(fs, custom_path) ==
    IF Truthy(custom_path) THEN "custom"
    ELSE IF fs.package # Absent THEN "package"
    ELSE IF fs.local # Absent THEN "local"
    ELSE "workspace"

\* The source load_resource_config opens
ConfigSource(fs, custom_path) ==
    IF Truthy(custom_path) THEN "custom"
    ELSE IF fs.package # Absent THEN "package"
    ELSE IF fs.workspace # Absent THEN "workspace"
    ELSE "local"

\* The shape check of load_resource_config on the parsed document
ParseResourceConfig(source, data) ==
    IF data.t = "list"
      THEN LoadReturned(source, data, PyBool(FALSE))
    ELSE IF data.t = "dict"
      THEN IF HasKey(data, "whitelist")
             THEN LET wl == Get(data, "whitelist", PyNone)
                      ignore == Get(data, "ignore_databricks_managed", PyBool(FALSE))
                  IN  IF HasLen(wl)
                        THEN LoadReturned(source, wl, ignore)
                        ELSE LoadRaised(source, "TypeError")
             ELSE LoadRaised(source, "ValueError")
    ELSE LoadRaised(source, "ValueError")

\* ConfigLoader.load_resource_config of the package
load_resource_config(fs, custom_path) ==
    LET source == ConfigSource(fs, custom_path)
        ended == IF fs[source] = Absent
                   THEN LoadRaised(source, "FileNotFoundError")
                   ELSE ParseResourceConfig(source, fs[source])
    IN  [ended EXCEPT !.op = "load_resource_config", !.custom_path = custom_path]

\* The source the whitelist-only load_whitelist opens
WhitelistSource(fs, custom_path) ==
    IF Truthy(custom_path) THEN "custom"
    ELSE IF fs.workspace # Absent THEN "workspace"
    ELSE "local"

\* The shape check of the whitelist-only load_whitelist
ParseWhitelist(source, data) ==
    IF data.t = "list"
      THEN LoadReturned(source, data, PyNone)
    ELSE IF data.t = "dict" /\ HasKey(data, "whitelist")
      THEN LET wl == Get(data, "whitelist", PyNone)
           IN  IF HasLen(wl)
                 THEN LoadReturned(source, wl, PyNone)
                 ELSE LoadRaised(source, "TypeError")
    ELSE LoadRaised(source, "ValueError")

\* ConfigLoader.load_whitelist of src/utils/config.py, which returns the bare list
load_whitelist(fs, custom_path) ==
    LET source == WhitelistSource(fs, custom_path)
        ended == IF fs[source] = Absent
                   THEN LoadRaised(source, "FileNotFoundError")
                   ELSE ParseWhitelist(source, fs[source])
    IN  [ended EXCEPT !.op = "load_whitelist", !.custom_path = custom_path]

-----------------------------------------------------------------------------
(* Handler construction, the factory and the entry point of src/main.py *)

\* ResourceConfig(whitelist, ignore_databricks_managed) of the package's config module
ResourceConfig(wl, ignore) == [t |-> "ResourceConfig", s |-> <<wl, ignore>>]

\* set(v) as far as membership of resource ids goes: the str items of a list
IdSet(v) ==
    IF v.t = "list" THEN { v.s[i].s : i \in { j \in DOMAIN v.s : v.s[j].t = "str" } }
    ELSE {}

\* ResourceHandler.__init__: it reads resource_config.whitelist and
\* resource_config.ignore_databricks_managed, attributes only a ResourceConfig has
HandlerInit(resource_config) ==
    IF resource_config.t = "ResourceConfig"
      THEN [ kind |-> "return", exc |-> "",
             whitelist |-> IdSet(resource_config.s[1]),
             ignore |-> Truthy(resource_config.s[2]) ]
      ELSE [ kind |-> "raise", exc |-> "AttributeError",
             whitelist |-> {}, ignore |-> FALSE ]

\* ResourceHandlerFactory._handlers
SupportedTypes == { "model_endpoints", "apps" }

\* ResourceHandlerFactory.create_handler
create_handler(resource_type, resource_config) ==
    IF resource_type \notin SupportedTypes
      THEN [ kind |-> "raise", exc |-> "ValueError", whitelist |-> {}, ignore |-> FALSE ]
      ELSE HandlerInit(resource_config)

\* Command lines: --resource-type, --action-mode, --whitelist-path, --dry-run
CommandLines ==
    [ resource_type : SupportedTypes \cup { "jobs" },
      action_mode : { "delete", "alert" },
      whitelist_path : { PyNone, PyStr(<<"/tmp/wl.json">>) },
      dry_run : BOOLEAN ]

NoRun ==
    [ args |-> [ resource_type |-> "", action_mode |-> "", whitelist_path |-> PyNone,
                 dry_run |-> FALSE ],
      stage |-> "", exit_code |-> 0, exc |-> "", calls |-> <<>>,
      violations |-> <<>>, deleted |-> {} ]

\* The end of a run: the last stage it reached, the exit status of the process, the
\* exception that ended it ("" when main returned), the handler operations invoked
RunEnd(args, stage, exit_code, exc, cs, vs, deleted) ==
    [ args |-> args, stage |-> stage, exit_code |-> exit_code, exc |-> exc,
      calls |-> cs, violations |-> vs, deleted |-> deleted ]

\* main() from the check of the resources on, with the handler h
main_check(args, h, endpoints, list_ok, outs) ==
    IF ~ list_ok
      THEN RunEnd(args, "check_resources", 1, "ListingError",
                  << Call("list_resources", <<>>, "") >>, <<>>, {})
    ELSE
    LET chk == CheckLoop(list_resources(endpoints), h.whitelist, h.ignore)
        checked == << Call("list_resources", <<>>, "") >> \o chk.calls
    IN  IF chk.violations = <<>>
          THEN RunEnd(args, "check_resources", 0, "", checked, <<>>, {})
        ELSE IF args.dry_run
          THEN RunEnd(args, "dry_run", 0, "", checked, chk.violations, {})
        ELSE
        LET hv == handle_violations(chk.violations, args.action_mode, outs)
            deleted == { hv.calls[k].arg : k \in { j \in DOMAIN hv.calls :
                             hv.calls[j].ret = "True" } }
        IN  IF hv.result.kind = "raise"
              THEN RunEnd(args, "handle_violations", 1, hv.result.exc,
                          checked \o hv.calls, hv.violations, deleted)
            ELSE IF args.action_mode = "delete" /\ hv.result.status = "partial_failure"
              THEN RunEnd(args, "handle_violations", 1, "SystemExit",
                          checked \o hv.calls, hv.violations, deleted)
            ELSE RunEnd(args, "handle_violations", 0, "",
                        checked \o hv.calls, hv.violations, deleted)

\* main(): argparse rejects a resource type outside the choices with status 2, a
\* missing whitelist file ends the run with sys.exit(1), every other exception is
\* logged and raised again
main(args, fs, endpoints, list_ok, outs) ==
    IF args.resource_type \notin SupportedTypes
      THEN RunEnd(args, "parse_arguments", 2, "SystemExit", <<>>, <<>>, {})
    ELSE
    LET wl == load_whitelist(fs, args.whitelist_path)
    IN  IF wl.kind = "raise" /\ wl.exc = "FileNotFoundError"
          THEN RunEnd(args, "load_whitelist", 1, "SystemExit", <<>>, <<>>, {})
        ELSE IF wl.kind = "raise"
          THEN RunEnd(args, "load_whitelist", 1, wl.exc, <<>>, <<>>, {})
        ELSE
        LET h == create_handler(args.resource_type, wl.whitelist)
        IN  IF h.kind = "raise"
              THEN RunEnd(args, "create_handler", 1, h.exc, <<>>, <<>>, {})
              ELSE main_check(args, h, endpoints, list_ok, outs)

\* Configuration sources of the runs explored
RunFileSystems ==
    [ custom : { PyList(<< Id(<<"svc">>) >>), PyDict(<<>>), Absent },
      package : { Absent },
      workspace : { WorkspaceDocument, Absent },
      local : { LocalDocument, Absent } ]

NoFiles ==
    [ custom |-> Absent, package |-> Absent, workspace |-> Absent, local |-> Absent ]

-----------------------------------------------------------------------------
(* The handler as a state machine *)

\* Values of action_mode a caller may pass; the CLI allows only the first two.
ActionModes == { "delete", "alert", "DELETE" }

\* No check_resources call yet, or the most recent one raised
NoCheck ==
    [ done |-> FALSE, listing |-> <<>>, violations |-> <<>>, repeated |-> FALSE ]

\* ResourceHandler.__init__ with a ResourceConfig, in a workspace with some listing
Init ==
    /\ platform \in Listings
    /\ whitelist \in SUBSET WhitelistIds
    /\ ignore_databricks_managed \in BOOLEAN
    /\ violations = <<>>
    /\ result = NoResult
    /\ calls = <<>>
    /\ last_check = NoCheck
    /\ files = NoFiles
    /\ loaded = NoLoad
    /\ run = NoRun

\* check_resources when the listing succeeds
CheckResources ==
    LET resources == list_resources(platform)
        loop == CheckLoop(resources, whitelist, ignore_databricks_managed)
        found == ResetViolations(violations) \o loop.violations
    IN  /\ violations' = found
        /\ result' = Returned("check_resources", found)
        /\ calls' = << Call("list_resources", <<>>, "") >> \o loop.calls
        /\ last_check' =
             [ done |-> TRUE, listing |-> platform, violations |-> found,
               repeated |-> last_check.done /\ last_check.listing = platform ]
        /\ UNCHANGED <<platform, whitelist, ignore_databricks_managed>>
        /\ UNCHANGED <<config_vars, run>>

\* check_resources when the platform listing call fails: list_resources re-raises
CheckResourcesListingFails ==
    /\ violations' = ResetViolations(violations)
    /\ result' = ListingFailure
    /\ calls' = << Call("list_resources", <<>>, "") >>
    /\ last_check' = NoCheck
    /\ UNCHANGED <<platform, whitelist, ignore_databricks_managed>>
    /\ UNCHANGED <<config_vars, run>>

\* What the delete_resource calls of one handle_violations call may do; the call
\* invokes delete_resource in delete mode only.
DeleteBehaviours(vs, action_mode) ==
    IF action_mode = "delete"
      THEN [DOMAIN vs -> DeleteOutcomes]
      ELSE { [i \in DOMAIN vs |-> "raise"] }

HandleViolations(action_mode) ==
    \E outs \in DeleteBehaviours(violations, action_mode) :
        LET h == handle_violations(violations, action_mode, outs)
            deleted == { violations[i].id : i \in { j \in DOMAIN violations :
                             action_mode = "delete" /\ outs[j] = "True" } }
        IN  /\ violations' = h.violations
            /\ result' = [h.result EXCEPT !.arg = action_mode]
            /\ calls' = h.calls
            /\ platform' = WithoutDeleted(platform, deleted)
            /\ UNCHANGED <<whitelist, ignore_databricks_managed, last_check>>
            /\ UNCHANGED <<config_vars, run>>

Next ==
    \/ CheckResources
    \/ CheckResourcesListingFails
    \/ \E action_mode \in ActionModes : HandleViolations(action_mode)

Spec == Init /\ [][Next]_vars

-----------------------------------------------------------------------------
(* The configuration loaders as a state machine *)

\* No handler has been built
NoHandler ==
    /\ platform = <<>>
    /\ whitelist = {}
    /\ ignore_databricks_managed = FALSE
    /\ violations = <<>>
    /\ result = NoResult
    /\ calls = <<>>
    /\ last_check = NoCheck

InitConfig ==
    /\ files \in FileSystems
    /\ loaded = NoLoad
    /\ run = NoRun
    /\ NoHandler

LoadResourceConfig(custom_path) ==
    /\ loaded' = load_resource_config(files, custom_path)
    /\ UNCHANGED <<files, run, handler_vars>>

LoadWhitelist(custom_path) ==
    /\ loaded' = load_whitelist(files, custom_path)
    /\ UNCHANGED <<files, run, handler_vars>>

NextConfig ==
    \/ \E custom_path \in CustomPaths : LoadResourceConfig(custom_path)
    \/ \E custom_path \in CustomPaths : LoadWhitelist(custom_path)

SpecConfig == InitConfig /\ [][NextConfig]_vars

-----------------------------------------------------------------------------
(* Runs of the entry point *)

InitMain ==
    /\ files \in RunFileSystems
    /\ platform \in Listings
    /\ loaded = NoLoad
    /\ run = NoRun
    /\ whitelist = {}
    /\ ignore_databricks_managed = FALSE
    /\ violations = <<>>
    /\ result = NoResult
    /\ calls = <<>>
    /\ last_check = NoCheck

\* One run of main() in the workspace, with what the platform does during it;
\* a behaviour is one run of the process
Main ==
    /\ run = NoRun
    /\ \E args \in CommandLines, list_ok \in BOOLEAN :
        \E outs \in DeleteBehaviours([i \in 1..Len(platform) |-> i],
                                     IF args.dry_run THEN "" ELSE args.action_mode) :
          LET ended == main(args, files, platform, list_ok, outs)
          IN  /\ run' = ended
              /\ platform' = WithoutDeleted(platform, ended.deleted)
              /\ UNCHANGED <<whitelist, ignore_databricks_managed, violations, result,
                             calls, last_check, config_vars>>

NextMain == Main

SpecMain == InitMain /\ [][NextMain]_vars

-----------------------------------------------------------------------------
(* Properties of the handler *)

RECURSIVE SplitAt(_, _)
\* text.split(sep) for a one-chunk separator
SplitAt(text, sep) ==
    IF \A k \in DOMAIN text : text[k] # sep THEN << text >>
    ELSE LET k == CHOOSE k \in DOMAIN text :
                      text[k] = sep /\ \A m \in 1..(k - 1) : text[m] # sep
         IN  << SubSeq(text, 1, k - 1) >> \o SplitAt(SubSeq(text, k + 1, Len(text)), sep)

\* name begins with "databricks-", stated without startswith
HasReservedPrefix(name) ==
    \E k \in 0..Len(name) : SubSeq(name, 1, k) = <<"databricks", "-">>

CheckReturned == result.op = "check_resources" /\ result.kind = "return"

DeleteCalls(cs) == { k \in DOMAIN cs : cs[k].op = "delete_resource" }

ActionTakenOf(ret) ==
    CASE ret = "True" -> "deleted"
      [] ret = "False" -> "delete_failed"
      [] OTHER -> "error"

\* C1: after check_resources returns, a listed resource is among the violations
\* exactly when its id is not whitelisted and (the managed filter is off or the
\* resource does not match the managed heuristic); every violation is a listed resource.
C1_ViolationIff ==
    CheckReturned =>
        LET resources == list_resources(platform)
        IN  /\ result.value = violations
            /\ \A i \in DOMAIN resources :
                 (\E j \in DOMAIN violations : violations[j].id = resources[i].id)
                 <=> /\ resources[i].id \notin whitelist
                     /\ \/ ~ ignore_databricks_managed
                        \/ ~ is_databricks_managed(resources[i])
            /\ \A j \in DOMAIN violations :
                 \E i \in DOMAIN resources : resources[i].id = violations[j].id

\* C1 witness: with the filter on, a whitelisted resource that matches the heuristic
\* is no violation, a managed one outside the whitelist is skipped, another is a violation
C1_Witness ==
    /\ CheckReturned
    /\ ignore_databricks_managed
    /\ Len(violations) = 1
    /\ \E i \in DOMAIN platform :
         /\ is_databricks_managed(EndpointRecord(platform[i]))
         /\ platform[i].name \in whitelist
    /\ Len(platform) = 2

\* C2: a delete-mode call on a non-empty violation sequence returns a report whose
\* status is partial_failure exactly when some delete_resource call did not return
\* True (some action_taken is not deleted), and success otherwise.
C2_PartialFailureIff ==
    (result.op = "handle_violations" /\ result.arg = "delete" /\ violations # <<>>) =>
        /\ result.kind = "return"
        /\ result.status \in { "success", "partial_failure" }
        /\ result.status = "partial_failure"
             <=> \E k \in DeleteCalls(calls) : calls[k].ret # "True"
        /\ result.status = "partial_failure"
             <=> \E i \in DOMAIN violations : violations[i].action_taken # "deleted"

\* C2 witness: the first deletion raised, the second succeeded, the report says partial_failure
C2_Witness ==
    /\ result.op = "handle_violations" /\ result.arg = "delete"
    /\ Len(calls) = 2
    /\ calls[1].ret = "raise" /\ calls[2].ret = "True"
    /\ result.status = "partial_failure"

\* C3: one delete-mode call invokes delete_resource exactly once per violation, in
\* the order of the violations, whatever the earlier calls did; each violation's
\* action_taken comes from its own call (True: deleted, False: delete_failed,
\* raised: error) and the report has one action per violation, in the same order.
C3_OneDeletePerViolation ==
    [][ (result'.op = "handle_violations" /\ result'.arg = "delete" /\ violations # <<>>) =>
          /\ Len(calls') = Len(violations)
          /\ Len(violations') = Len(violations)
          /\ Len(result'.actions) = Len(violations)
          /\ \A i \in DOMAIN violations :
               /\ calls'[i].op = "delete_resource"
               /\ calls'[i].arg = violations[i].id
               /\ violations'[i] =
                    [violations[i] EXCEPT !.action_taken = ActionTakenOf(calls'[i].ret)]
               /\ SubSeq(result'.actions[i], 2, 1 + Len(violations[i].id))
                    = violations[i].id
               /\ result'.actions[i][1] =
                    ( CASE calls'[i].ret = "True" -> "Deleted resource "
                        [] calls'[i].ret = "False" -> "Failed to delete resource "
                        [] OTHER -> "Error deleting resource " ) ]_vars

\* C3 witness: the first deletion raised and the second, still attempted, returned False
C3_Witness ==
    /\ result.op = "handle_violations" /\ result.arg = "delete"
    /\ Len(violations) = 2
    /\ violations[1].action_taken = "error"
    /\ violations[2].action_taken = "delete_failed"
    /\ Len(result.actions) = 2

\* C4: an alert-mode call on a non-empty violation sequence returns no report; it
\* raises one error whose message has, between the heading and the closing text,
\* one line per violation with its id and details, in the order of the violations,
\* each violation on exactly one line.
C4_AlertMessage ==
    (result.op = "handle_violations" /\ result.arg = "alert" /\ violations # <<>>) =>
        LET lines == SplitAt(result.message, "\n")
            n == Len(violations)
        IN  /\ result.kind = "raise"
            /\ result.exc = "Exception"
            /\ calls = <<>>
            /\ Len(lines) = n + 3
            /\ \A i \in 1..n :
                 /\ lines[i + 1] = <<"- ">> \o violations[i].id
                                       \o <<": ">> \o violations[i].details
                 /\ Cardinality({ k \in DOMAIN lines : lines[k] = lines[i + 1] }) = 1
            /\ lines[n + 2] = <<>>

\* C4 witness: an alert raised for two violations
C4_Witness ==
    /\ result.op = "handle_violations" /\ result.arg = "alert"
    /\ result.kind = "raise"
    /\ Len(violations) = 2

\* C6 as claimed: whatever violations the handler holds, a mode other than delete
\* and alert makes handle_violations raise the invalid-mode error and return no report.
C6_InvalidModeAlwaysRaises ==
    (result.op = "handle_violations" /\ result.arg \notin { "delete", "alert" }) =>
        /\ result.kind = "raise"
        /\ result.exc = "ValueError"

\* C6 amended: with a mode other than delete and alert, handle_violations invokes
\* no handler operation and leaves the violations as they are; it raises the
\* invalid-mode error when the handler holds a violation, and returns the empty
\* success report when it holds none.
C6_InvalidMode ==
    [][ (result'.op = "handle_violations" /\ result'.arg \notin { "delete", "alert" }) =>
          /\ violations' = violations
          /\ calls' = <<>>
          /\ IF violations = <<>>
               THEN result'.kind = "return" /\ result'.status = "success"
                    /\ result'.count = 0
               ELSE result'.kind = "raise" /\ result'.exc = "ValueError" ]_vars

\* C6 witness: the invalid-mode error raised by a handler holding two violations
C6_Witness ==
    /\ result.op = "handle_violations" /\ result.arg = "DELETE"
    /\ result.exc = "ValueError"
    /\ Len(violations) = 2
    /\ \A i \in DOMAIN violations : violations[i].action_taken = "None"

\* C7: on a handler without violations handle_violations returns the report
\* {success, 0, []} for every mode, invokes no handler operation and changes nothing.
C7_EmptyReport ==
    [][ (result'.op = "handle_violations" /\ violations = <<>>) =>
          /\ result'.kind = "return"
          /\ result'.status = "success"
          /\ result'.count = 0
          /\ result'.actions = <<>>
          /\ calls' = <<>>
          /\ violations' = <<>>
          /\ UNCHANGED <<platform, whitelist, ignore_databricks_managed>> ]_vars

\* C7 witness: the empty report, returned in alert mode while the workspace has endpoints
C7_Witness ==
    /\ result.op = "handle_violations" /\ result.arg = "alert"
    /\ result.kind = "return" /\ result.status = "success" /\ result.count = 0
    /\ violations = <<>>
    /\ platform # <<>>

\* The record of the listing that a call logged by check_resources was made on
ListedRecord(id) ==
    CHOOSE r \in { EndpointRecord(platform[i]) : i \in DOMAIN platform } : r.id = id

ManagedCalls == { k \in DOMAIN calls : calls[k].op = "is_databricks_managed" }

\* C8 as claimed: the heuristic is true exactly for a record without a known creator
\* (None, or the "UNKNOWN" the handlers put in for a missing creator) whose name
\* begins with "databricks-".
C8_SentinelIsUnknown ==
    CheckReturned =>
        \A k \in ManagedCalls :
            LET r == ListedRecord(calls[k].arg)
            IN  calls[k].ret = "True"
                  <=> /\ r.creator \in { PyNone, PyStr(<<"UNKNOWN">>) }
                      /\ HasReservedPrefix(r.name)

\* C8 amended: the heuristic is true exactly for a record whose creator is None
\* and whose name begins with "databricks-"; the "UNKNOWN" the handlers put in for
\* a missing creator attribute is a creator like any other.
C8_ManagedIff ==
    CheckReturned =>
        \A k \in ManagedCalls :
            LET r == ListedRecord(calls[k].arg)
            IN  calls[k].ret = "True"
                  <=> /\ r.creator = PyNone
                      /\ HasReservedPrefix(r.name)

\* C8 witness: the heuristic was asked about a "databricks-" endpoint without a
\* creator attribute and about one with creator None whose name lacks the prefix
C8_Witness ==
    /\ CheckReturned
    /\ \E k \in ManagedCalls :
         /\ calls[k].ret = "False"
         /\ ListedRecord(calls[k].arg).creator = PyStr(<<"UNKNOWN">>)
         /\ HasReservedPrefix(calls[k].arg)
    /\ \E k \in ManagedCalls :
         /\ calls[k].ret = "False"
         /\ ListedRecord(calls[k].arg).creator = PyNone
         /\ calls[k].arg[1] = "databricks"

-----------------------------------------------------------------------------
(* Properties of the entry point *)

RunEnded == run.stage # ""

\* The run got its whitelist: the arguments were accepted and load_whitelist returned
WhitelistLoaded == RunEnded /\ run.stage \notin { "parse_arguments", "load_whitelist" }

\* C5: a dry run whose whitelist was loaded ends normally, whatever the listing and
\* the action mode: no delete_resource call, no alert error, exit status 0.
C5_DryRunEndsNormally ==
    (WhitelistLoaded /\ run.args.dry_run) =>
        /\ DeleteCalls(run.calls) = {}
        /\ run.exc = ""
        /\ run.exit_code = 0

\* The four ends of a run that the command-line contract gives a non-zero status
NonZeroByContract ==
    \/ run.args.resource_type \notin SupportedTypes
    \/ files[WhitelistSource(files, run.args.whitelist_path)] = Absent
    \/ /\ run.stage = "handle_violations"
       /\ run.args.action_mode = "delete"
       /\ \E i \in DOMAIN run.violations : run.violations[i].action_taken # "deleted"
    \/ /\ run.stage = "handle_violations"
       /\ run.args.action_mode = "alert"
       /\ run.violations # <<>>

\* C11: a run ends with a non-zero exit status exactly when the resource type is
\* unsupported, the whitelist file is missing, a delete-mode report says
\* partial_failure or alert mode found a violation; every other run, a dry run and
\* a run without violations included, ends with status 0.
C11_ExitStatus ==
    RunEnded => (run.exit_code # 0 <=> NonZeroByContract)

-----------------------------------------------------------------------------
(* Properties of sequences of handler calls *)

\* C12: a check_resources call that completes after an earlier completed call, with
\* the listing and the configuration as they were at that call, returns and stores
\* the violations the earlier call returned: nothing a handle_violations call in
\* between left in the handler shows in the result.
C12_Idempotent ==
    [][ ( /\ result'.op = "check_resources" /\ result'.kind = "return"
          /\ last_check.done
          /\ last_check.listing = platform )
        => /\ violations' = last_check.violations
           /\ result'.value = last_check.violations ]_vars

\* A second completed check on an unchanged listing that found violations
C12_Witness ==
    /\ CheckReturned
    /\ last_check.repeated
    /\ violations # <<>>

\* C13: a check_resources call whose listing fails ends by raising the listing
\* error after exactly one list_resources call, returns no violation sequence and
\* leaves none in the handler; until a later check completes, no handle_violations
\* call invokes delete_resource.
C13_ListingErrorPropagates ==
    /\ (result.op = "check_resources" /\ ~ last_check.done) =>
          /\ result.kind = "raise"
          /\ result.exc = "ListingError"
          /\ result.value = <<>>
          /\ calls = << Call("list_resources", <<>>, "") >>
          /\ violations = <<>>
    /\ ~ last_check.done => DeleteCalls(calls) = {}

\* A check_resources call raised the listing error in a workspace whose resources
\* would all be violations
C13_Witness ==
    /\ result.op = "check_resources" /\ result.kind = "raise"
    /\ platform # <<>>
    /\ whitelist = {}
    /\ ~ ignore_databricks_managed

\* C14 as claimed: check_resources creates every violation with action_taken
\* unset, and a handle_violations call never writes an action_taken that an
\* earlier call has set.
C14_WrittenOnce ==
    [][ /\ (result'.op = "check_resources" /\ result'.kind = "return") =>
              \A i \in DOMAIN violations' : violations'[i].action_taken = "None"
        /\ result'.op = "handle_violations" =>
              /\ Len(violations') = Len(violations)
              /\ \A i \in DOMAIN violations :
                    violations[i].action_taken # "None" =>
                        violations'[i].action_taken = violations[i].action_taken
      ]_vars

\* C14: check_resources creates every violation with action_taken unset; a
\* delete-mode handle_violations call writes the action_taken of every violation
\* from the outcome of that call's own delete_resource call (deleted, delete_failed
\* or error), whatever an earlier call had written; a call in any other mode, or
\* with no violations, writes none.
C14_WrittenPerDeleteCall ==
    [][ /\ (result'.op = "check_resources" /\ result'.kind = "return") =>
              \A i \in DOMAIN violations' : violations'[i].action_taken = "None"
        /\ result'.op = "handle_violations" =>
              /\ Len(violations') = Len(violations)
              /\ IF result'.arg = "delete"
                   THEN /\ Len(calls') = Len(violations)
                        /\ \A i \in DOMAIN violations :
                              /\ calls'[i].op = "delete_resource"
                              /\ calls'[i].arg = violations[i].id
                              /\ violations'[i].action_taken = ActionTakenOf(calls'[i].ret)
                   ELSE \A i \in DOMAIN violations :
                           violations'[i].action_taken = violations[i].action_taken
      ]_vars

\* A delete-mode call recorded a failure for a resource that an earlier call of
\* the same pass had deleted from the workspace
C14_Witness ==
    /\ result.op = "handle_violations" /\ result.arg = "delete"
    /\ last_check.done
    /\ \E i \in DOMAIN violations :
          /\ violations[i].action_taken \in {"delete_failed", "error"}
          /\ \E j \in DOMAIN last_check.listing :
                last_check.listing[j].name = violations[i].id
          /\ \A j \in DOMAIN platform : platform[j].name # violations[i].id

\* The records check_resources saw at the most recent completed check
CheckedRecords == { EndpointRecord(last_check.listing[i]) : i \in DOMAIN last_check.listing }

\* C15: every delete_resource invocation is made by a delete-mode
\* handle_violations call that follows a completed check, with the id of a
\* violation that check found; the id is not whitelisted and does not belong to a
\* resource the managed filter skipped.
C15_DeleteOnlyViolations ==
    \A k \in DeleteCalls(calls) :
        /\ result.op = "handle_violations"
        /\ result.arg = "delete"
        /\ last_check.done
        /\ \E i \in DOMAIN last_check.violations :
              last_check.violations[i].id = calls[k].arg
        /\ calls[k].arg \notin whitelist
        /\ \A r \in CheckedRecords :
              (r.id = calls[k].arg) =>
                  ~ (ignore_databricks_managed /\ HasReservedPrefix(r.name)
                     /\ r.creator = PyNone)

\* A delete-mode call that invoked delete_resource while the checked listing held
\* a whitelisted resource
C15_Witness ==
    /\ result.op = "handle_violations" /\ result.arg = "delete"
    /\ DeleteCalls(calls) # {}
    /\ \E r \in CheckedRecords : r.id \in whitelist

-----------------------------------------------------------------------------
(* Properties of the configuration loaders *)

\* C9: load_resource_config on a parsed document returns the whitelist with
\* ignore_databricks_managed false for a bare array, the whitelist and the flag
\* (false when absent) for an object with a whitelist array and an optional boolean
\* flag, and fails without a ResourceConfig for every other shape.
C9_ShapesValidated ==
    (loaded.op = "load_resource_config" /\ loaded.exc # "FileNotFoundError") =>
        LET data == files[loaded.source]
            wl == Get(data, "whitelist", PyNone)
            flag == Get(data, "ignore_databricks_managed", PyBool(FALSE))
        IN  IF data.t = "list"
              THEN /\ loaded.kind = "return"
                   /\ loaded.whitelist = data
                   /\ loaded.ignore = PyBool(FALSE)
            ELSE IF data.t = "dict" /\ wl.t = "list" /\ flag.t = "bool"
              THEN /\ loaded.kind = "return"
                   /\ loaded.whitelist = wl
                   /\ loaded.ignore = flag
            ELSE loaded.kind = "raise"

\* The explicit path exists when one is given and the file is there
SourceExists(source) ==
    /\ files[source] # Absent
    /\ source = "custom" => Truthy(loaded.custom_path)

\* The first source of the order that satisfies present, "" when none does
FirstOf(order, present(_)) ==
    IF \A i \in DOMAIN order : ~ present(order[i]) THEN ""
    ELSE order[CHOOSE i \in DOMAIN order :
                   present(order[i]) /\ \A j \in 1..(i - 1) : ~ present(order[j])]

\* The whitelist a document holds: the bare array, or the whitelist of the object
WhitelistIn(doc) ==
    IF doc.t = "dict" THEN Get(doc, "whitelist", PyNone) ELSE doc

\* The loader read the source, or failed with not-found when there is none to read
ReadFrom(source) ==
    IF source = ""
      THEN loaded.kind = "raise" /\ loaded.exc = "FileNotFoundError"
      ELSE /\ loaded.source = source
           /\ loaded.exc # "FileNotFoundError"
           /\ loaded.kind = "return" => loaded.whitelist = WhitelistIn(files[source])

\* C10 as claimed: load_resource_config returns the configuration of the first
\* source that exists among explicit path, packaged default, deployment path and
\* local path, and fails with not-found only when none of them exists.
C10_FirstExistingOfFour ==
    loaded.op = "load_resource_config" =>
        ReadFrom(FirstOf(<<"custom", "package", "workspace", "local">>, SourceExists))

IsThere(source) == files[source] # Absent

\* C10 amended: with a non-empty explicit path a loader reads that path only and
\* fails with not-found when it does not exist; without one load_resource_config
\* reads the first that exists of packaged default, deployment path and local path,
\* the whitelist-only load_whitelist the first that exists of deployment path and
\* local path; each fails with not-found only when nothing it looks at exists.
C10_LayeredLookup ==
    /\ loaded.op = "load_resource_config" =>
         ReadFrom(FirstOf(IF Truthy(loaded.custom_path) THEN <<"custom">>
                          ELSE <<"package", "workspace", "local">>, IsThere))
    /\ loaded.op = "load_whitelist" =>
         ReadFrom(FirstOf(IF Truthy(loaded.custom_path) THEN <<"custom">>
                          ELSE <<"workspace", "local">>, IsThere))

\* C10 witness: without an explicit path and without a packaged default, the
\* deployment path is read although the local path and a file at the unused
\* explicit path exist too
C10_Witness ==
    /\ loaded.op = "load_resource_config"
    /\ ~ Truthy(loaded.custom_path)
    /\ files.package = Absent
    /\ files.workspace # Absent /\ files.local # Absent /\ files.custom # Absent
    /\ loaded.source = "workspace"
    /\ loaded.kind = "return"

====
